---- MODULE Spec2Model ----
(***************************************************************************)
(* Model of the real-time detection backend: the ByteTrack tracker         *)
(* (backend/app/services/tracker.py), the process-wide tracker singleton   *)
(* and the /stream WebSocket loop (backend/app/routes/stream.py) with the  *)
(* configuration it reads (backend/app/config.py).                         *)
(*                                                                         *)
(* Five specifications share the variables:                                *)
(*   Spec         the service: sessions of /stream driving the singleton   *)
(*                tracker, which is constructed as ByteTrack() and so has  *)
(*                buffer_size = 30;                                        *)
(*   SpecTracker  the ByteTrack class on its own: an object constructed    *)
(*                with any buffer_size, driven by an arbitrary sequence of *)
(*                update / get_active_tracks calls;                        *)
(*   SpecDetect   ObjectDetector.detect and POST /detect;                  *)
(*   SpecRetrain  POST /retrain and its background task on the event loop  *)
(*                of the /stream sessions;                                 *)
(*   SpecScript   StudentModelTrainer.retrain_model and the script         *)
(*                scripts/train_student.py.                                *)
(***************************************************************************)
EXTENDS Integers, Sequences, FiniteSets, TLC

\* ------------------------------------------------------------------------
\* Bounds of the model
\* ------------------------------------------------------------------------
NumSessions == 2
MaxFrames == 3
MaxDets == 2
MaxInterval == 2
MaxBuffer == 2
MaxIds == 3
MaxRows == 2
MaxResults == 2

\* ------------------------------------------------------------------------
\* Program constants
\* ------------------------------------------------------------------------
\* ByteTrack.__init__(self, buffer_size: int = 30)
DefaultBufferSize == 30
\* RETRAIN_EPOCHS, RETRAIN_BATCH_SIZE, RETRAIN_IMG_SIZE of config.py
DefaultRetrainEpochs == 50
DefaultRetrainBatchSize == 16
DefaultRetrainImgSize == 640

Sessions == 1..NumSessions

\* Values of config.DETECTOR_FRAME_INTERVAL = int(os.getenv(...)): any
\* integer the environment supplies, zero and negative included.
Intervals == 0..MaxInterval

\* Values of config.TRACKER_BUFFER = int(os.getenv(...)).
BufferConfigs == {-1, DefaultBufferSize}

\* Values of the buffer_size argument of ByteTrack(buffer_size).
BufferSizes == 0..MaxBuffer

\* ------------------------------------------------------------------------
\* Detections, as ObjectDetector.detect returns them: box, confidence, class
\* ------------------------------------------------------------------------
Classes == {"person", "car"}
\* <<xmin, ymin, xmax, ymax>>; IoU(BoxA, BoxB) = 0.6, IoU(BoxA, BoxC) = 0.1
BoxA == <<0, 0, 10, 10>>
BoxB == <<0, 0, 10, 6>>
BoxC == <<0, 0, 10, 1>>
Boxes == {BoxA, BoxB, BoxC}
\* confidences in hundredths (detect rounds them to two decimals)
Confidences == {70, 90}

\* the detections the model draws the detector's results from
Detections ==
    {[box |-> BoxA, confidence |-> 90, class |-> "person"],
     [box |-> BoxB, confidence |-> 70, class |-> "person"],
     [box |-> BoxC, confidence |-> 70, class |-> "person"],
     [box |-> BoxA, confidence |-> 90, class |-> "car"]}

SeqsUpTo(S, n) == UNION {[1..k -> S] : k \in 0..n}

DetLists == SeqsUpTo(Detections, MaxDets)

\* the results the model lets the detector return to a /stream session
StreamDetections ==
    {[box |-> BoxA, confidence |-> 90, class |-> "person"],
     [box |-> BoxA, confidence |-> 90, class |-> "car"]}

StreamDetLists == SeqsUpTo(StreamDetections, MaxDets)

\* ------------------------------------------------------------------------
\* State
\* ------------------------------------------------------------------------
VARIABLES
    DETECTOR_FRAME_INTERVAL,  \* config.DETECTOR_FRAME_INTERVAL
    TRACKER_BUFFER,           \* config.TRACKER_BUFFER
    tracks,      \* tracker.tracks: the dict's values in insertion order
    next_id,     \* tracker.next_id
    buffer_size, \* tracker.buffer_size
    pc,          \* per session: position in websocket_endpoint
    frame_count, \* per session: local frame_count
    detections,  \* per session: local detections of the current frame
    ws_tracks,   \* per session: local tracks of the current frame
    cycle,       \* per session: what the handling of the last frame did
    sent,        \* per session: number of frames sent with send_bytes
    logged,      \* per session: number of "Frame n processed" records
    detector_calls, \* per session: number of calls of detector.detect
    call,        \* SpecTracker: the last call on the tracker and its result
    issued,      \* every id update has assigned so far, and for whom
    model,       \* detector.model: the loaded YOLO model (its names) or None
    results,     \* what self.model(frame, ...) does for the frame at hand
    upload,      \* the file of the POST /detect request at hand
    detect_ret,  \* what the last ObjectDetector.detect call returned
    response,    \* the answer to the POST /detect request
    retrain,     \* POST /retrain: its answer and its background task
    config,      \* the fields of config that train_student.py overrides
    script,      \* train_student_model_script: position, arguments, locals
    trainer      \* student_model_trainer: its data, the last retrain_model run

cfgvars == <<DETECTOR_FRAME_INTERVAL, TRACKER_BUFFER>>
trackervars == <<tracks, next_id, buffer_size>>
sessionvars == <<pc, frame_count, detections, ws_tracks, cycle, sent, logged,
                 detector_calls>>
scriptvars == <<config, script, trainer>>
apivars == <<model, results, upload, detect_ret, response, retrain>>
vars == <<DETECTOR_FRAME_INTERVAL, TRACKER_BUFFER, tracks, next_id, buffer_size,
          pc, frame_count, detections, ws_tracks, cycle, sent, logged,
          detector_calls, call, issued, model, results, upload, detect_ret,
          response, retrain, config, script, trainer>>

\* ------------------------------------------------------------------------
\* ObjectDetector.detect
\* ------------------------------------------------------------------------
\* model.names of the loaded model: class id -> label
Names == (0 :> "person") @@ (1 :> "car")

\* detector.model: a loaded model, or None
Models == {[loaded |-> TRUE, names |-> Names], [loaded |-> FALSE, names |-> Names]}

\* Rows of r.boxes.data.tolist(): xmin, ymin, xmax, ymax (in tenths of a
\* pixel), the confidence (in thousandths; none of them half-way between
\* two hundredths) and the class id.
Rows ==
    {[xyxy |-> <<105, 100, 509, 500>>, conf |-> 904, cls |-> 0],
     [xyxy |-> <<600, 600, 1000, 1007>>, conf |-> 796, cls |-> 1],
     [xyxy |-> <<0, 0, 1000, 1000>>, conf |-> 700, cls |-> 0]}

\* self.model(frame, ...): it raises, or yields a list of results, each
\* with its box rows
ModelOutputs ==
    {[raises |-> TRUE, list |-> <<>>]}
      \cup {[raises |-> FALSE, list |-> l] : l \in SeqsUpTo(SeqsUpTo(Rows, MaxRows), MaxResults)}

\* variant: the confidence cut to two decimals instead of rounded
RowDetection_Truncates(row, names) ==
    [box |-> [k \in 1..4 |-> row.xyxy[k] \div 10],
     confidence |-> row.conf \div 10,
     class |-> names[row.cls]]

\* the dictionary detect appends for one row: int(x) of the coordinates,
\* round(conf, 2) (here in hundredths), names[int(cls)]
RowDetection(row, names) ==
    [box |-> [k \in 1..4 |-> row.xyxy[k] \div 10],
     confidence |-> (row.conf + 5) \div 10,
     class |-> names[row.cls]]

\* the two nested loops of detect: for r in results, for each row of r
RECURSIVE DetectLoop(_, _)
DetectLoop(list, names) ==
    IF list = <<>> THEN <<>>
    ELSE [i \in 1..Len(Head(list)) |-> RowDetection(Head(list)[i], names)]
           \o DetectLoop(Tail(list), names)

\* what detect returns when the model call does not raise
Detect(m, out) == IF ~m.loaded THEN <<>> ELSE DetectLoop(out.list, m.names)

\* detect raises when a model is loaded and the model call raises
DetectRaises(m, out) == m.loaded /\ out.raises

NoReturn == [state |-> "none", value |-> <<>>]

\* ------------------------------------------------------------------------
\* ByteTrack
\* ------------------------------------------------------------------------
NoCall == [op |-> "none", detections |-> <<>>, ret |-> <<>>]

\* track_info of one detection, as built in the first loop of update
TrackInfo(det, track_id) ==
    [id |-> track_id, box |-> det.box, class |-> det.class,
     confidence |-> det.confidence, last_seen |-> 0]

\* the tracks the first loop of update creates: one per detection, ids
\* next_id, next_id + 1, ...
NewTracks(dets, nid) ==
    [i \in 1..Len(dets) |-> TrackInfo(dets[i], nid + i - 1)]

\* variant: the ageing loop passes over the tracks that have last_seen 0
AgeAll_KeepsFresh(ts) ==
    [i \in 1..Len(ts) |->
        IF ts[i].last_seen = 0 THEN ts[i] ELSE [ts[i] EXCEPT !.last_seen = @ + 1]]

\* track["last_seen"] += 1 for every track
AgeAll(ts) ==
    [i \in 1..Len(ts) |-> [ts[i] EXCEPT !.last_seen = @ + 1]]

\* variant: the comparison off by one
TooOld_Late(t, b) == t.last_seen > b + 1

\* if track["last_seen"] > self.buffer_size: tracks_to_remove.append(track_id)
TooOld(t, b) == t.last_seen > b

RECURSIVE RemoveOld(_, _)
RemoveOld(ts, b) ==
    IF ts = <<>> THEN <<>>
    ELSE IF TooOld(Head(ts), b) THEN RemoveOld(Tail(ts), b)
         ELSE <<Head(ts)>> \o RemoveOld(Tail(ts), b)

\* variant: a detection refreshes every live track that has its box,
\* whatever the track's class
UpdateTracks_MatchAnyClass(ts, nid, b, dets) ==
    LET Refresh(t) ==
            IF \E k \in 1..Len(dets) : dets[k].box = t.box
            THEN LET k == CHOOSE k \in 1..Len(dets) : dets[k].box = t.box
                 IN  [t EXCEPT !.class = dets[k].class,
                               !.confidence = dets[k].confidence,
                               !.last_seen = 0]
            ELSE t
    IN  RemoveOld(AgeAll([i \in 1..Len(ts) |-> Refresh(ts[i])] \o NewTracks(dets, nid)), b)

\* self.tracks after update(dets)
UpdateTracks(ts, nid, b, dets) == RemoveOld(AgeAll(ts \o NewTracks(dets, nid)), b)

\* variant: "self.next_id += 1" left out of the loop
UpdateNextId_NoIncrement(nid, dets) == nid

\* self.next_id after update(dets)
UpdateNextId(nid, dets) == nid + Len(dets)

\* the list update(dets) returns: updated_tracks holds the track_info
\* objects the first loop created, which the second loop has aged since
UpdateReturn(nid, dets) == AgeAll(NewTracks(dets, nid))

\* variant: the values listed newest first
GetActiveTracks_NewestFirst(ts) == [i \in 1..Len(ts) |-> ts[Len(ts) + 1 - i]]

\* get_active_tracks: list(self.tracks.values())
GetActiveTracks(ts) == ts

\* ByteTrack.__init__(buffer_size)
TrackerInit(b) ==
    /\ tracks = <<>>
    /\ next_id = 0
    /\ buffer_size = b
    /\ issued = {}

\* the ids of a list of tracks
Ids(ts) == {ts[i].id : i \in 1..Len(ts)}

\* The record of the ids assigned after one more update call made for the
\* caller `by`: each id with its caller and with the number of update calls
\* made since the one that assigned it (counted up to b + 1).
Issue(old, dets, nid, by, b) ==
    {[r EXCEPT !.unmatched = IF @ > b THEN @ ELSE @ + 1] : r \in old}
      \cup {[id |-> i, by |-> by, unmatched |-> 0] : i \in Ids(NewTracks(dets, nid))}

\* ------------------------------------------------------------------------
\* StudentModelTrainer.retrain_model
\* ------------------------------------------------------------------------
\* The entries of a data directory: a name and whether it is a file or a
\* directory.  "images" is the name _prepare_dataset_config makes a
\* directory of.
DirEntries ==
    {[name |-> "frame1.jpg", kind |-> "file"],
     [name |-> "images", kind |-> "file"],
     [name |-> "images", kind |-> "dir"]}

\* A data directory: missing, empty, or holding one entry
DataDirs ==
    {[exists |-> FALSE, items |-> {}], [exists |-> TRUE, items |-> {}]}
      \cup {[exists |-> TRUE, items |-> {e}] : e \in DirEntries}

\* What retrain_model finds: the two data directories, whether
\* YOLO(base_model_path) loads and whether student_model.train(...) runs
\* through
TrainerEnvs ==
    [labeled : DataDirs, pseudo : DataDirs, base_loads : BOOLEAN, train_ok : BOOLEAN]

\* the two copy loops: shutil.copy onto a directory of the same name and
\* shutil.copytree onto a file of the same name raise
CopyRaises(env) ==
    \E a \in env.labeled.items : \E b \in env.pseudo.items :
        a.name = b.name /\ a.kind # b.kind

\* combined_data_dir after the two copy loops
Combined(env) == env.labeled.items \cup env.pseudo.items

\* class_names = list(detector.model.names.values()) if detector.model else []
ClassNames(m) == IF m.loaded THEN {m.names[i] : i \in DOMAIN m.names} ELSE {}

\* _prepare_dataset_config: (data_path / "images").mkdir(exist_ok=True)
\* raises FileExistsError when "images" is a file
PrepareRaises(env) ==
    \E e \in Combined(env) : e.name = "images" /\ e.kind = "file"

NoResult ==
    [kind |-> "none", status |-> "", model_path |-> "None",
     loaded |-> FALSE, trained |-> FALSE]

Raised(loaded, trained) ==
    [kind |-> "raised", status |-> "", model_path |-> "None",
     loaded |-> loaded, trained |-> trained]

Returned(status, path, loaded, trained) ==
    [kind |-> "returned", status |-> status, model_path |-> path,
     loaded |-> loaded, trained |-> trained]

\* retrain_model: how the call ends, and whether it got to load the base
\* model and to start the training
RetrainModel(env, m) ==
    IF CopyRaises(env) THEN Raised(FALSE, FALSE)
    ELSE IF Combined(env) = {} THEN Returned("aborted", "None", FALSE, FALSE)
    ELSE IF ClassNames(m) = {} THEN Returned("aborted", "None", FALSE, FALSE)
    ELSE IF PrepareRaises(env) THEN Raised(FALSE, FALSE)
    ELSE IF ~env.base_loads THEN Returned("failed", "None", TRUE, FALSE)
    ELSE IF ~env.train_ok THEN Returned("failed", "None", TRUE, TRUE)
    ELSE Returned("success", "weights/best.pt", TRUE, TRUE)

\* config = Config(): the fields train_student.py overrides
DefaultConfig ==
    [LABELED_DATA_DIR |-> "data/labeled", PSEUDO_LABELS_DIR |-> "data/pseudo_labels",
     RETRAIN_EPOCHS |-> DefaultRetrainEpochs,
     RETRAIN_BATCH_SIZE |-> DefaultRetrainBatchSize,
     RETRAIN_IMG_SIZE |-> DefaultRetrainImgSize,
     DEVICE |-> "cuda:0", HALF_PRECISION |-> TRUE]

\* the same fields with the environment variables set
EnvConfig ==
    [DefaultConfig EXCEPT !.RETRAIN_EPOCHS = 10, !.RETRAIN_BATCH_SIZE = 8,
                          !.RETRAIN_IMG_SIZE = 320, !.DEVICE = "cpu",
                          !.HALF_PRECISION = FALSE]

Configs == {DefaultConfig, EnvConfig}

\* the arguments of train_student_model_script
ScriptArgs ==
    {DefaultConfig,
     [DefaultConfig EXCEPT !.RETRAIN_EPOCHS = 1, !.DEVICE = "cpu"],
     [LABELED_DATA_DIR |-> "my/labeled", PSEUDO_LABELS_DIR |-> "my/pseudo",
      RETRAIN_EPOCHS |-> 1, RETRAIN_BATCH_SIZE |-> 4, RETRAIN_IMG_SIZE |-> 416,
      DEVICE |-> "cuda:1", HALF_PRECISION |-> FALSE]}

\* a trainer with data to train on, a base model that loads and a training
\* that runs through
ReadyEnv ==
    [labeled |-> [exists |-> TRUE, items |-> {[name |-> "frame1.jpg", kind |-> "file"]}],
     pseudo |-> [exists |-> TRUE, items |-> {}],
     base_loads |-> TRUE, train_ok |-> TRUE]

ScriptNotRun ==
    [pc |-> "idle", args |-> DefaultConfig, before |-> DefaultConfig,
     original |-> DefaultConfig, ret |-> NoResult]

\* the script is not run
ScriptIdle ==
    /\ config = DefaultConfig
    /\ script = ScriptNotRun
    /\ trainer = [env |-> ReadyEnv, result |-> NoResult]

\* ------------------------------------------------------------------------
\* The /stream session
\* ------------------------------------------------------------------------
\* Python's a % b for b # 0
PyMod(a, b) == IF b > 0 THEN a % b ELSE -((-a) % (-b))

\* variant: the test made on the count before "frame_count += 1"
ShouldRunDetector_Stale(count, interval) == PyMod(count - 1, interval) = 0

\* if frame_count % config.DETECTOR_FRAME_INTERVAL == 0
ShouldRunDetector(count, interval) == PyMod(count, interval) = 0

\* the handler has returned, through either except clause
Closed(s) == pc[s] \in {"disconnected", "failed"}

\* what a received text decodes to: an image; bytes cv2.imdecode returns
\* None for; or text base64.b64decode raises on
Payloads == {"image", "not_an_image", "bad_base64"}

NoCycle == [kind |-> "none", frame |-> 0]

\* the number of frames the sessions of S have decoded so far
RECURSIVE FramesHandled(_)
FramesHandled(S) ==
    IF S = {} THEN 0
    ELSE LET s == CHOOSE x \in S : TRUE
         IN  frame_count[s] + FramesHandled(S \ {s})

SessionsInit ==
    /\ pc = [s \in Sessions |-> "accept"]
    /\ frame_count = [s \in Sessions |-> 0]
    /\ detections = [s \in Sessions |-> <<>>]
    /\ ws_tracks = [s \in Sessions |-> <<>>]
    /\ cycle = [s \in Sessions |-> NoCycle]
    /\ sent = [s \in Sessions |-> 0]
    /\ logged = [s \in Sessions |-> 0]
    /\ detector_calls = [s \in Sessions |-> 0]

\* await websocket.accept(); frame_count = 0
Accept(s) ==
    /\ pc[s] = "accept"
    /\ pc' = [pc EXCEPT ![s] = "receive"]
    /\ frame_count' = [frame_count EXCEPT ![s] = 0]
    /\ UNCHANGED <<cfgvars, scriptvars, apivars, trackervars, detections, ws_tracks, cycle, sent,
                   logged, detector_calls, call, issued>>

\* variant: "frame_count += 1" placed before the decoding
SkipFrame_CountsFrame(s, payload) ==
    /\ payload # "image"
    /\ cycle' = [cycle EXCEPT ![s] = [kind |-> "skipped", frame |-> frame_count[s] + 1]]
    /\ frame_count' = [frame_count EXCEPT ![s] = @ + 1]
    /\ UNCHANGED <<cfgvars, scriptvars, apivars, trackervars, pc, detections,
                   ws_tracks, sent, logged, detector_calls, call, issued>>

\* receive_text returned a payload that does not decode: log, continue
SkipFrame(s, payload) ==
    /\ payload # "image"
    /\ cycle' = [cycle EXCEPT ![s] = [kind |-> "skipped", frame |-> frame_count[s]]]
    /\ UNCHANGED <<cfgvars, scriptvars, apivars, trackervars, pc, frame_count, detections,
                   ws_tracks, sent, logged, detector_calls, call, issued>>

\* frame_count % config.DETECTOR_FRAME_INTERVAL with the interval 0:
\* ZeroDivisionError, caught by "except Exception", the handler returns
IntervalZero(s) ==
    /\ DETECTOR_FRAME_INTERVAL = 0
    /\ frame_count' = [frame_count EXCEPT ![s] = @ + 1]
    /\ detections' = [detections EXCEPT ![s] = <<>>]
    /\ ws_tracks' = [ws_tracks EXCEPT ![s] = <<>>]
    /\ cycle' = [cycle EXCEPT ![s] = [kind |-> "error", frame |-> frame_count[s] + 1]]
    /\ pc' = [pc EXCEPT ![s] = "failed"]
    /\ UNCHANGED <<cfgvars, scriptvars, apivars, trackervars, sent, logged, detector_calls, call,
                   issued>>

\* the detector cycle: detector.detect(frame) raised; "except Exception"
\* logs the error and the handler returns
DetectorRaised(s) ==
    /\ DETECTOR_FRAME_INTERVAL # 0
    /\ ShouldRunDetector(frame_count[s] + 1, DETECTOR_FRAME_INTERVAL)
    /\ frame_count' = [frame_count EXCEPT ![s] = @ + 1]
    /\ detections' = [detections EXCEPT ![s] = <<>>]
    /\ ws_tracks' = [ws_tracks EXCEPT ![s] = <<>>]
    /\ cycle' = [cycle EXCEPT ![s] =
                    [kind |-> "detector_raised", frame |-> frame_count[s] + 1]]
    /\ detector_calls' = [detector_calls EXCEPT ![s] = @ + 1]
    /\ pc' = [pc EXCEPT ![s] = "failed"]
    /\ UNCHANGED <<cfgvars, scriptvars, apivars, trackervars, sent, logged, call, issued>>

\* the detector cycle: detections = await detector.detect(frame);
\* tracks = tracker.update(detections)
DetectCycle(s, dets) ==
    /\ DETECTOR_FRAME_INTERVAL # 0
    /\ ShouldRunDetector(frame_count[s] + 1, DETECTOR_FRAME_INTERVAL)
    /\ next_id + Len(dets) <= MaxIds
    /\ frame_count' = [frame_count EXCEPT ![s] = @ + 1]
    /\ detections' = [detections EXCEPT ![s] = dets]
    /\ ws_tracks' = [ws_tracks EXCEPT ![s] = UpdateReturn(next_id, dets)]
    /\ tracks' = UpdateTracks(tracks, next_id, buffer_size, dets)
    /\ next_id' = UpdateNextId(next_id, dets)
    /\ issued' = Issue(issued, dets, next_id, s, buffer_size)
    /\ cycle' = [cycle EXCEPT ![s] = [kind |-> "detect", frame |-> frame_count[s] + 1]]
    /\ detector_calls' = [detector_calls EXCEPT ![s] = @ + 1]
    /\ pc' = [pc EXCEPT ![s] = "send"]
    /\ UNCHANGED <<cfgvars, scriptvars, apivars, buffer_size, sent, logged, call>>

\* variant: the track-only branch feeds the detections left over from the
\* session's last detector cycle to tracker.update
TrackOnlyCycle_Reupdates(s) ==
    /\ DETECTOR_FRAME_INTERVAL # 0
    /\ ~ShouldRunDetector(frame_count[s] + 1, DETECTOR_FRAME_INTERVAL)
    /\ frame_count' = [frame_count EXCEPT ![s] = @ + 1]
    /\ ws_tracks' = [ws_tracks EXCEPT ![s] = UpdateReturn(next_id, detections[s])]
    /\ tracks' = UpdateTracks(tracks, next_id, buffer_size, detections[s])
    /\ next_id' = UpdateNextId(next_id, detections[s])
    /\ issued' = Issue(issued, detections[s], next_id, s, buffer_size)
    /\ cycle' = [cycle EXCEPT ![s] = [kind |-> "track_only", frame |-> frame_count[s] + 1]]
    /\ pc' = [pc EXCEPT ![s] = "send"]
    /\ UNCHANGED <<cfgvars, scriptvars, apivars, buffer_size, detections, sent, logged,
                   detector_calls, call>>

\* the other frames: tracks = tracker.get_active_tracks()
TrackOnlyCycle(s) ==
    /\ DETECTOR_FRAME_INTERVAL # 0
    /\ ~ShouldRunDetector(frame_count[s] + 1, DETECTOR_FRAME_INTERVAL)
    /\ frame_count' = [frame_count EXCEPT ![s] = @ + 1]
    /\ detections' = [detections EXCEPT ![s] = <<>>]
    /\ ws_tracks' = [ws_tracks EXCEPT ![s] = GetActiveTracks(tracks)]
    /\ cycle' = [cycle EXCEPT ![s] = [kind |-> "track_only", frame |-> frame_count[s] + 1]]
    /\ pc' = [pc EXCEPT ![s] = "send"]
    /\ UNCHANGED <<cfgvars, scriptvars, apivars, trackervars, sent, logged, detector_calls, call,
                   issued>>

\* One pass of the loop body from receive_text up to the await of
\* send_bytes.  detector.detect is a coroutine that never suspends, so the
\* event loop runs the pass as one step.
ReceiveFrame(s) ==
    /\ pc[s] = "receive"
    /\ FramesHandled(Sessions) < MaxFrames
    /\ \/ \E payload \in Payloads : SkipFrame(s, payload)
       \/ IntervalZero(s)
       \/ DetectorRaised(s)
       \/ \E dets \in StreamDetLists : DetectCycle(s, dets)
       \/ TrackOnlyCycle(s)

\* variant: the log record written without the "if detections or tracks:"
SendFrame_LogsEveryFrame(s) ==
    /\ pc[s] = "send"
    /\ sent' = [sent EXCEPT ![s] = @ + 1]
    /\ logged' = [logged EXCEPT ![s] = @ + 1]
    /\ pc' = [pc EXCEPT ![s] = "receive"]
    /\ UNCHANGED <<cfgvars, scriptvars, apivars, trackervars, frame_count, detections, ws_tracks,
                   cycle, detector_calls, call, issued>>

\* await websocket.send_bytes(...) returned; "if detections or tracks:" log
SendFrame(s) ==
    /\ pc[s] = "send"
    /\ sent' = [sent EXCEPT ![s] = @ + 1]
    /\ logged' = [logged EXCEPT ![s] =
                    IF detections[s] # <<>> \/ ws_tracks[s] # <<>> THEN @ + 1 ELSE @]
    /\ pc' = [pc EXCEPT ![s] = "receive"]
    /\ UNCHANGED <<cfgvars, scriptvars, apivars, trackervars, frame_count, detections, ws_tracks,
                   cycle, detector_calls, call, issued>>

\* variant: "except Exception" sits inside the loop, so that a session that
\* failed goes back to receive_text
ConnectionLost_Resumes(s) ==
    /\ \/ /\ pc[s] \in {"receive", "send"}
          /\ \E exit \in {"disconnected", "failed"} : pc' = [pc EXCEPT ![s] = exit]
       \/ /\ pc[s] = "failed"
          /\ pc' = [pc EXCEPT ![s] = "receive"]
    /\ UNCHANGED <<cfgvars, scriptvars, apivars, trackervars, frame_count, detections, ws_tracks,
                   cycle, sent, logged, detector_calls, call, issued>>

\* receive_text or send_bytes raised.  "except WebSocketDisconnect" logs at
\* info level, "except Exception" logs an error; either way the handler
\* returns: pc "disconnected" or "failed"
ConnectionLost(s) ==
    /\ pc[s] \in {"receive", "send"}
    /\ \E exit \in {"disconnected", "failed"} : pc' = [pc EXCEPT ![s] = exit]
    /\ UNCHANGED <<cfgvars, scriptvars, apivars, trackervars, frame_count, detections, ws_tracks,
                   cycle, sent, logged, detector_calls, call, issued>>

NoResponse == [state |-> "none", status |-> 0, detail |-> "", body |-> <<>>]

RetrainIdle == [task |-> "idle", response |-> "none"]

\* no HTTP request at hand
ApiIdle ==
    /\ model = [loaded |-> TRUE, names |-> Names]
    /\ results = [raises |-> FALSE, list |-> <<>>]
    /\ upload = "image"
    /\ detect_ret = NoReturn
    /\ response = NoResponse
    /\ retrain = RetrainIdle
    /\ ScriptIdle

\* the process has imported config and tracker: config = Config(),
\* tracker = ByteTrack()
Init ==
    /\ DETECTOR_FRAME_INTERVAL \in Intervals
    /\ TRACKER_BUFFER \in BufferConfigs
    /\ TrackerInit(DefaultBufferSize)
    /\ SessionsInit
    /\ call = NoCall
    /\ ApiIdle

Next ==
    \/ \E s \in Sessions : Accept(s)
    \/ \E s \in Sessions : ReceiveFrame(s)
    \/ \E s \in Sessions : SendFrame(s)
    \/ \E s \in Sessions : ConnectionLost(s)

Spec == Init /\ [][Next]_vars

\* ------------------------------------------------------------------------
\* The ByteTrack class on its own
\* ------------------------------------------------------------------------
\* the number of calls made so far is not program state; the bound on the
\* ids caps the run
CallUpdate(dets) ==
    /\ next_id + Len(dets) <= MaxIds
    /\ tracks' = UpdateTracks(tracks, next_id, buffer_size, dets)
    /\ next_id' = UpdateNextId(next_id, dets)
    /\ call' = [op |-> "update", detections |-> dets,
                ret |-> UpdateReturn(next_id, dets)]
    /\ issued' = Issue(issued, dets, next_id, 0, buffer_size)
    /\ UNCHANGED <<cfgvars, scriptvars, apivars, buffer_size, sessionvars>>

CallGetActiveTracks ==
    /\ call' = [op |-> "get_active_tracks", detections |-> <<>>,
                ret |-> GetActiveTracks(tracks)]
    /\ UNCHANGED <<cfgvars, scriptvars, apivars, trackervars, sessionvars, issued>>

InitTracker ==
    /\ DETECTOR_FRAME_INTERVAL = 1
    /\ TRACKER_BUFFER = DefaultBufferSize
    /\ \E b \in BufferSizes : TrackerInit(b)
    /\ SessionsInit
    /\ call = NoCall
    /\ ApiIdle

NextTracker ==
    \/ \E dets \in DetLists : CallUpdate(dets)
    \/ CallGetActiveTracks

SpecTracker == InitTracker /\ [][NextTracker]_vars

\* ------------------------------------------------------------------------
\* ObjectDetector.detect called directly, and POST /detect
\* ------------------------------------------------------------------------
\* what the uploaded file is: an image; bytes cv2.imdecode returns None
\* for; or an empty file, on which cv2.imdecode raises
Uploads == {"image", "not_an_image", "empty"}

\* detections = await detector.detect(frame), as the test calls it
CallDetect ==
    /\ detect_ret.state = "none"
    /\ response.state = "none"
    /\ detect_ret' = IF DetectRaises(model, results)
                       THEN [state |-> "raised", value |-> <<>>]
                       ELSE [state |-> "returned", value |-> Detect(model, results)]
    /\ UNCHANGED <<cfgvars, scriptvars, trackervars, sessionvars, call, issued, model,
                   results, upload, response, retrain>>

\* detect_image: the whole handler.  The HTTPException(400) of line 40 is
\* raised inside the try block, and "except Exception" turns every
\* exception of the block into HTTPException(500); str() of an
\* HTTPException is "<status>: <detail>".
DetectImage ==
    /\ response.state = "none"
    /\ detect_ret.state = "none"
    /\ \/ /\ upload = "empty"
          /\ response' = [state |-> "sent", status |-> 500,
                           detail |-> "Failed to process image for detection: imdecode",
                           body |-> <<>>]
          /\ UNCHANGED detect_ret
       \/ /\ upload = "not_an_image"
          /\ response' = [state |-> "sent", status |-> 500,
                           detail |-> "Failed to process image for detection: 400: Could not decode image.",
                           body |-> <<>>]
          /\ UNCHANGED detect_ret
       \/ /\ upload = "image"
          /\ DetectRaises(model, results)
          /\ detect_ret' = [state |-> "raised", value |-> <<>>]
          /\ response' = [state |-> "sent", status |-> 500,
                           detail |-> "Failed to process image for detection: model",
                           body |-> <<>>]
       \/ /\ upload = "image"
          /\ ~DetectRaises(model, results)
          /\ detect_ret' = [state |-> "returned", value |-> Detect(model, results)]
          /\ response' = [state |-> "sent", status |-> 200, detail |-> "",
                           body |-> Detect(model, results)]
    /\ UNCHANGED <<cfgvars, scriptvars, trackervars, sessionvars, call, issued, model,
                   results, upload, retrain>>

InitDetect ==
    /\ DETECTOR_FRAME_INTERVAL = 1
    /\ TRACKER_BUFFER = DefaultBufferSize
    /\ TrackerInit(DefaultBufferSize)
    /\ SessionsInit
    /\ call = NoCall
    /\ model \in Models
    /\ results \in ModelOutputs
    /\ upload \in Uploads
    /\ detect_ret = NoReturn
    /\ response = NoResponse
    /\ retrain = RetrainIdle
    /\ ScriptIdle

NextDetect ==
    \/ CallDetect
    \/ DetectImage

SpecDetect == InitDetect /\ [][NextDetect]_vars

\* ------------------------------------------------------------------------
\* POST /retrain and its background task, next to the /stream sessions
\* ------------------------------------------------------------------------
\* trigger_retrain: add_task(_run_retraining_task), return the "processing"
\* response; the task is run once the response has been sent
TriggerRetrain ==
    /\ retrain.task = "idle"
    /\ retrain' = [task |-> "queued", response |-> "processing"]
    /\ UNCHANGED <<cfgvars, scriptvars, trackervars, sessionvars, call, issued, model,
                   results, upload, detect_ret, response>>

\* the event loop starts _run_retraining_task: await retrain_model(), a
\* coroutine that copies the data and calls student_model.train(...)
\* without ever awaiting
RetrainStart ==
    /\ retrain.task = "queued"
    /\ retrain' = [retrain EXCEPT !.task = "running"]
    /\ UNCHANGED <<cfgvars, scriptvars, trackervars, sessionvars, call, issued, model,
                   results, upload, detect_ret, response>>

\* retrain_model returns; _run_retraining_task logs the status
RetrainFinish ==
    /\ retrain.task = "running"
    /\ retrain' = [retrain EXCEPT !.task = "done"]
    /\ trainer' = [trainer EXCEPT !.result = RetrainModel(trainer.env, model)]
    /\ UNCHANGED <<cfgvars, config, script, trackervars, sessionvars, call, issued, model,
                   results, upload, detect_ret, response>>

\* The handlers are coroutines of one event loop: the loop resumes another
\* one only when the running one awaits or returns, which retrain_model
\* does not do before it has finished.
LoopFree == retrain.task # "running"

\* the event loop resumes the handler of session s
SessionStep(s) ==
    /\ LoopFree
    /\ \/ Accept(s)
       \/ ReceiveFrame(s)
       \/ SendFrame(s)
       \/ ConnectionLost(s)

\* the event loop runs the handler of another request (POST /detect)
RequestStep ==
    /\ LoopFree
    /\ DetectImage

InitRetrain ==
    /\ DETECTOR_FRAME_INTERVAL \in 1..MaxInterval
    /\ TRACKER_BUFFER = DefaultBufferSize
    /\ TrackerInit(DefaultBufferSize)
    /\ SessionsInit
    /\ call = NoCall
    /\ ApiIdle

NextRetrain ==
    \/ TriggerRetrain
    \/ RetrainStart
    \/ RetrainFinish
    \/ \E s \in Sessions : SessionStep(s)
    \/ RequestStep

SpecRetrain == InitRetrain /\ [][NextRetrain]_vars

\* ------------------------------------------------------------------------
\* retrain_model called directly, and scripts/train_student.py
\* ------------------------------------------------------------------------
\* await student_model_trainer.retrain_model()
CallRetrainModel ==
    /\ script.pc = "idle"
    /\ trainer.result = NoResult
    /\ trainer' = [trainer EXCEPT !.result = RetrainModel(trainer.env, model)]
    /\ UNCHANGED <<cfgvars, config, script, trackervars, sessionvars, call, issued,
                   apivars>>

\* train_student_model_script, lines 38-52: the seven original_* locals
\* are taken, then config is assigned the arguments
ScriptOverride(args) ==
    /\ script.pc = "idle"
    /\ trainer.result = NoResult
    /\ script' = [script EXCEPT !.pc = "try", !.args = args, !.before = config,
                                !.original = config]
    /\ config' = args
    /\ UNCHANGED <<cfgvars, trainer, trackervars, sessionvars, call, issued, apivars>>

\* the try block: "return result", or "except Exception" returning a
\* "failed" result of its own
ScriptTry ==
    /\ script.pc = "try"
    /\ LET result == RetrainModel(trainer.env, model)
       IN  /\ trainer' = [trainer EXCEPT !.result = result]
           /\ script' = [script EXCEPT
                           !.pc = "finally",
                           !.ret = IF result.kind = "returned" THEN result
                                   ELSE Returned("failed", "None", result.loaded,
                                                 result.trained)]
    /\ UNCHANGED <<cfgvars, config, trackervars, sessionvars, call, issued, apivars>>

\* variant: the finally block without "config.DEVICE = original_device"
ScriptFinally_KeepsDevice ==
    /\ script.pc = "finally"
    /\ config' = [script.original EXCEPT !.DEVICE = config.DEVICE]
    /\ script' = [script EXCEPT !.pc = "returned"]
    /\ UNCHANGED <<cfgvars, trainer, trackervars, sessionvars, call, issued, apivars>>

\* the finally block: the seven fields are assigned the original_* locals,
\* and the function returns
ScriptFinally ==
    /\ script.pc = "finally"
    /\ config' = script.original
    /\ script' = [script EXCEPT !.pc = "returned"]
    /\ UNCHANGED <<cfgvars, trainer, trackervars, sessionvars, call, issued, apivars>>

InitScript ==
    /\ DETECTOR_FRAME_INTERVAL = 1
    /\ TRACKER_BUFFER = DefaultBufferSize
    /\ TrackerInit(DefaultBufferSize)
    /\ SessionsInit
    /\ call = NoCall
    /\ model \in Models
    /\ results = [raises |-> FALSE, list |-> <<>>]
    /\ upload = "image"
    /\ detect_ret = NoReturn
    /\ response = NoResponse
    /\ retrain = RetrainIdle
    /\ config \in Configs
    /\ script = ScriptNotRun
    /\ \E env \in TrainerEnvs : trainer = [env |-> env, result |-> NoResult]

NextScript ==
    \/ CallRetrainModel
    \/ \E args \in ScriptArgs : ScriptOverride(args)
    \/ ScriptTry
    \/ ScriptFinally

SpecScript == InitScript /\ [][NextScript]_vars

\* ------------------------------------------------------------------------
\* Properties
\* ------------------------------------------------------------------------
IssuedIds == {r.id : r \in issued}

\* C1: in a /stream session with interval >= 1, handling a decoded frame
\* calls the detector (once) iff the frame's index is a multiple of the
\* interval; on every other decoded frame the detector is not called and
\* the track-only path (get_active_tracks, tracker untouched) runs; a step
\* that decodes no frame never calls the detector.
C1_DetectorCadence ==
    [][\A s \in Sessions :
        /\ (DETECTOR_FRAME_INTERVAL >= 1 /\ frame_count'[s] = frame_count[s] + 1) =>
            /\ detector_calls'[s] \in {detector_calls[s], detector_calls[s] + 1}
            /\ (detector_calls'[s] = detector_calls[s] + 1)
                  <=> (frame_count'[s] % DETECTOR_FRAME_INTERVAL = 0)
            /\ (frame_count'[s] % DETECTOR_FRAME_INTERVAL # 0) =>
                  /\ cycle'[s].kind = "track_only"
                  /\ ws_tracks'[s] = tracks
                  /\ detections'[s] = <<>>
                  /\ UNCHANGED trackervars
        /\ frame_count'[s] = frame_count[s] => detector_calls'[s] = detector_calls[s]
      ]_vars

\* a session with interval 2 has handled frame 1 (track-only), frame 2
\* (detector) and frame 3 (track-only)
C1_Witness ==
    \E s \in Sessions :
        /\ DETECTOR_FRAME_INTERVAL = 2
        /\ frame_count[s] = 3
        /\ detector_calls[s] = 1
        /\ cycle[s].kind = "track_only"

\* C2: over any sequence of update and get_active_tracks calls, the live
\* tracks have pairwise different ids, every id a call assigns is greater
\* than every id assigned before (so none is reused, also after eviction),
\* and a live track keeps its id: the id stays with the same box, class and
\* confidence.
C2_IdsUniqueMonotonic ==
    [][/\ \A i, j \in 1..Len(tracks') : i # j => tracks'[i].id # tracks'[j].id
       /\ \A n \in IssuedIds' \ IssuedIds : \A o \in IssuedIds : n > o
       /\ Cardinality(IssuedIds' \ IssuedIds) = next_id' - next_id
       /\ Ids(tracks') \subseteq IssuedIds'
       /\ \A i \in 1..Len(tracks) : \A j \in 1..Len(tracks') :
             tracks'[j].id = tracks[i].id =>
                /\ tracks'[j].box = tracks[i].box
                /\ tracks'[j].class = tracks[i].class
                /\ tracks'[j].confidence = tracks[i].confidence
      ]_vars

\* ids were assigned in two calls, one track was evicted and two are live
C2_Witness ==
    /\ call.op = "update"
    /\ Len(call.detections) > 0
    /\ Len(tracks) = 2
    /\ Ids(tracks) # IssuedIds
    /\ next_id = 3

\* C3: after any sequence of update and get_active_tracks calls no track
\* with last_seen > buffer_size is in the live set, nor in the list
\* get_active_tracks hands to a reader.
C3_NoOverAgeTrack ==
    /\ \A i \in 1..Len(tracks) : ~(tracks[i].last_seen > buffer_size)
    /\ call.op = "get_active_tracks" =>
          \A i \in 1..Len(call.ret) : ~(call.ret[i].last_seen > buffer_size)

\* a track reached the age limit and was evicted by a later update, and a
\* reader then fetched the remaining tracks
C3_Witness ==
    /\ buffer_size = 1
    /\ call.op = "get_active_tracks"
    /\ Len(call.ret) > 0
    /\ Ids(tracks) # IssuedIds

\* C4: the list update returns holds exactly the tracks that are live after
\* the call (new and persisting ones, none that the call evicted).
C4_UpdateReturnsLiveSet ==
    call.op = "update" =>
        {call.ret[i] : i \in 1..Len(call.ret)} = {tracks[i] : i \in 1..Len(tracks)}

\* Intersection over union of two boxes <<xmin, ymin, xmax, ymax>>, compared
\* with the match threshold 0.3 in integers
BoxArea(b) == (b[3] - b[1]) * (b[4] - b[2])

Smaller(x, y) == IF x <= y THEN x ELSE y

Larger(x, y) == IF x >= y THEN x ELSE y

Overlap(a, b) ==
    LET w == Smaller(a[3], b[3]) - Larger(a[1], b[1])
        h == Smaller(a[4], b[4]) - Larger(a[2], b[2])
    IN  IF w > 0 /\ h > 0 THEN w * h ELSE 0

IoUReachesThreshold(a, b) ==
    10 * Overlap(a, b) >= 3 * (BoxArea(a) + BoxArea(b) - Overlap(a, b))

Eligible(det, t) == det.class = t.class /\ IoUReachesThreshold(det.box, t.box)

\* C5: in an update call in which every detection has at most one eligible
\* live track (same class, IoU >= 0.3) and no track is eligible for two
\* detections, each detection with an eligible track is matched to it (the
\* track keeps its id and takes the detection's box, class and confidence)
\* and new ids are allocated only for the other detections.
C5_MatchKeepsId ==
    [][call'.op = "update" =>
        LET dets == call'.detections
            Cand(k) == {i \in 1..Len(tracks) : Eligible(dets[k], tracks[i])}
            Matched == {k \in 1..Len(dets) : Cand(k) # {}}
        IN  (/\ \A k \in Matched : Cardinality(Cand(k)) = 1
             /\ \A k, l \in Matched : k # l => Cand(k) \cap Cand(l) = {}) =>
                /\ next_id' - next_id = Len(dets) - Cardinality(Matched)
                /\ \A k \in Matched : \A i \in Cand(k) :
                      \E j \in 1..Len(tracks') :
                         /\ tracks'[j].id = tracks[i].id
                         /\ tracks'[j].box = dets[k].box
                         /\ tracks'[j].class = dets[k].class
                         /\ tracks'[j].confidence = dets[k].confidence
      ]_vars

\* C6: whenever a session handles a decoded frame, detector cycle or
\* track-only cycle, every live track that is not matched in it either ages
\* by exactly 1 or is evicted (no detection is ever matched to a track
\* here, so this concerns every track that was live before the cycle).
C6_UnmatchedTracksAge ==
    [][\A s \in Sessions :
        (frame_count'[s] = frame_count[s] + 1 /\ pc'[s] = "send") =>
            \A i \in 1..Len(tracks) : \A j \in 1..Len(tracks') :
                tracks'[j].id = tracks[i].id =>
                    tracks'[j].last_seen = tracks[i].last_seen + 1
      ]_vars

\* C7: for every buffer_size >= 0 a track is live exactly as long as the
\* number of update calls made since the call that created it (none of
\* which matched it) does not exceed buffer_size: live in the creating
\* cycle and through buffer_size further cycles, gone from the next on.
C7_LivesBufferSizeCycles ==
    \A r \in issued : (r.unmatched <= buffer_size) <=> (r.id \in Ids(tracks))

\* C8: the track list a session renders holds only tracks created from that
\* session's detections, and a session's cycle leaves the tracks created
\* for other sessions as they are.
C8_TracksIsolated ==
    [][\A s \in Sessions :
        /\ \A i \in 1..Len(ws_tracks'[s]) : \A r \in issued' :
              r.id = ws_tracks'[s][i].id => r.by = s
        /\ frame_count'[s] = frame_count[s] + 1 =>
              \A i \in 1..Len(tracks) :
                 (\E r \in issued : r.id = tracks[i].id /\ r.by # s) =>
                    \E j \in 1..Len(tracks') : tracks'[j] = tracks[i]
      ]_vars

\* C9: a step that skips an undecodable payload leaves the frame counter,
\* the detector call count, the tracker, the frames sent and the log alone,
\* and the session is at receive_text again, still open.
C9_UndecodableFrameSkipped ==
    [][\A s \in Sessions :
        (cycle'[s].kind = "skipped" /\ cycle'[s] # cycle[s]) =>
            /\ frame_count'[s] = frame_count[s]
            /\ cycle'[s].frame = frame_count[s]
            /\ detector_calls' = detector_calls
            /\ UNCHANGED trackervars
            /\ sent' = sent
            /\ logged' = logged
            /\ pc[s] = "receive" /\ pc'[s] = "receive"
      ]_vars

\* a session handled and sent one frame and then skipped a payload
C9_Witness ==
    \E s \in Sessions :
        /\ cycle[s].kind = "skipped"
        /\ pc[s] = "receive"
        /\ frame_count[s] = 1
        /\ sent[s] = 1
        /\ Len(tracks) > 0

\* C10: when the detector raises, the cycle goes on as a track-only cycle:
\* the session holds the live tracks, is about to send the annotated frame
\* and is not closed.
C10_DetectorFailureRecovered ==
    [][\A s \in Sessions :
        (cycle'[s].kind = "detector_raised" /\ frame_count'[s] = frame_count[s] + 1) =>
            /\ pc'[s] = "send"
            /\ detections'[s] = <<>>
            /\ ws_tracks'[s] = tracks'
      ]_vars

\* C11: when receive_text or send_bytes fails, the session is closed for
\* good and its track state is released: none of the tracks created for it
\* is live any more; and a session accepted after another one has closed
\* finds an empty track set.
C11_TransportFailureReleasesTracks ==
    [][\A s \in Sessions :
        /\ (pc[s] \in {"receive", "send"} /\ Closed(s)'
               /\ frame_count'[s] = frame_count[s]) =>
              \A r \in issued' : r.by = s => r.id \notin Ids(tracks')
        /\ Closed(s) =>
              /\ Closed(s)'
              /\ frame_count'[s] = frame_count[s]
              /\ sent'[s] = sent[s]
        /\ (pc[s] = "accept" /\ pc'[s] = "receive"
               /\ \E o \in Sessions : Closed(o)) => tracks' = <<>>
      ]_vars

\* C12: no session gets to its first frame under a detector interval < 1
\* or a negative track buffer size: such a configuration is rejected before.
C12_BadConfigRejected ==
    \A s \in Sessions :
        (pc[s] # "accept") =>
            DETECTOR_FRAME_INTERVAL >= 1 /\ TRACKER_BUFFER >= 0

\* the number of rows of the first n results
RECURSIVE RowsBefore(_, _)
RowsBefore(list, n) == IF n = 0 THEN 0 ELSE RowsBefore(list, n - 1) + Len(list[n])

\* C14: detect returns one detection per box row of the results, in their
\* order, with class names[cls] and the row's confidence rounded to two
\* decimals; it returns [] when there is no row or no model is loaded.
C14_DetectOnePerRow ==
    detect_ret.state = "returned" =>
        IF model.loaded
        THEN /\ Len(detect_ret.value) = RowsBefore(results.list, Len(results.list))
             /\ \A i \in 1..Len(results.list) : \A j \in 1..Len(results.list[i]) :
                   LET d == detect_ret.value[RowsBefore(results.list, i - 1) + j]
                       row == results.list[i][j]
                   IN  /\ d.class = model.names[row.cls]
                       /\ 10 * d.confidence - row.conf \in (-5)..5
        ELSE detect_ret.value = <<>>

\* detect returned the detections of two results with rows
C14_Witness ==
    /\ detect_ret.state = "returned"
    /\ model.loaded
    /\ Len(results.list) = 2
    /\ Len(results.list[1]) = 2
    /\ Len(results.list[2]) = 1
    /\ results.list[1][1] # results.list[1][2]
    /\ Len(detect_ret.value) = 3

\* C15: an upload that does not decode is answered with status 400 and
\* detail "Could not decode image." without a call of the detector; status
\* 500 is only the answer to a decodable image.
C15_UndecodableUploadIs400 ==
    response.state = "sent" =>
        /\ upload # "image" =>
              /\ response.status = 400
              /\ response.detail = "Could not decode image."
              /\ detect_ret.state = "none"
        /\ response.status = 500 => upload = "image"

\* C16: POST /retrain has answered "processing" before the retraining run
\* starts, and while the run is in progress the service can still take
\* steps: a session waiting to be accepted or to send its frame, and a
\* POST /detect request, can be served.
C16_ResponsiveWhileRetraining ==
    /\ retrain.task \in {"queued", "running"} => retrain.response = "processing"
    /\ retrain.task = "running" =>
          /\ \A s \in Sessions : pc[s] \in {"accept", "send"} => ENABLED SessionStep(s)
          /\ response.state = "none" => ENABLED RequestStep

\* C17: no update call refreshes a live track from a detection of another
\* class: a track that comes out of the call with a changed box, class or
\* confidence, or with its age set back, took them from a detection of the
\* call that has the class the track had.
C17_ClassIsolation ==
    [][call'.op = "update" =>
        \A i \in 1..Len(tracks) : \A j \in 1..Len(tracks') :
            (/\ tracks'[j].id = tracks[i].id
             /\ \/ tracks'[j].box # tracks[i].box
                \/ tracks'[j].class # tracks[i].class
                \/ tracks'[j].confidence # tracks[i].confidence
                \/ tracks'[j].last_seen <= tracks[i].last_seen) =>
                \E k \in 1..Len(call'.detections) :
                    /\ call'.detections[k].class = tracks[i].class
                    /\ tracks'[j].box = call'.detections[k].box
                    /\ tracks'[j].class = call'.detections[k].class
                    /\ tracks'[j].confidence = call'.detections[k].confidence
      ]_vars

\* update got a "car" detection on the very box of a live "person" track:
\* both are live afterwards, under different ids
C17_Witness ==
    /\ call.op = "update"
    /\ Len(call.detections) = 1
    /\ call.detections[1].class = "car"
    /\ \E i, j \in 1..Len(tracks) :
          /\ tracks[i].id < tracks[j].id
          /\ tracks[i].class = "person" /\ tracks[j].class = "car"
          /\ tracks[i].box = tracks[j].box
          /\ tracks[j].id \in Ids(call.ret)

\* C18: a track created (or matched) by an update call has age 0 when the
\* call returns, in the returned list and in the live set.
C18_NewTrackAgeZero ==
    call.op = "update" =>
        /\ \A i \in 1..Len(call.ret) : call.ret[i].last_seen = 0
        /\ \A i \in 1..Len(tracks) :
              tracks[i].id \in Ids(call.ret) => tracks[i].last_seen = 0

\* C19: a track-only cycle creates no track, leaves the id counter alone
\* and leaves id, box, class and confidence of every track that is still
\* live as they were.
C19_TrackOnlyCreatesNothing ==
    [][\A s \in Sessions :
        (cycle'[s].kind = "track_only" /\ frame_count'[s] = frame_count[s] + 1) =>
            /\ next_id' = next_id
            /\ IssuedIds' = IssuedIds
            /\ Ids(tracks') \subseteq Ids(tracks)
            /\ \A j \in 1..Len(tracks') : \E i \in 1..Len(tracks) :
                  /\ tracks[i].id = tracks'[j].id
                  /\ tracks[i].box = tracks'[j].box
                  /\ tracks[i].class = tracks'[j].class
                  /\ tracks[i].confidence = tracks'[j].confidence
            /\ Ids(ws_tracks'[s]) \subseteq Ids(tracks)
      ]_vars

\* a session whose last detector cycle had detections has gone through a
\* track-only cycle, with two tracks live
C19_Witness ==
    \E s \in Sessions :
        /\ cycle[s].kind = "track_only"
        /\ frame_count[s] = 3
        /\ detector_calls[s] = 1
        /\ Len(ws_tracks[s]) = 2
        /\ next_id = 2

\* the session states of the specification, read off the handler's
\* position: Connected from the handshake to the first received frame,
\* Streaming from then on, Closed once the handler has returned
SessionState(s) ==
    IF pc[s] = "accept" THEN "Pending"
    ELSE IF Closed(s) THEN "Closed"
    ELSE IF cycle[s].kind = "none" /\ frame_count[s] = 0 THEN "Connected"
    ELSE "Streaming"

\* once Closed, session s has no further effect: its position, its
\* counters, its last cycle and the tracks it created stay as they are
ClosedIsTerminal(s) ==
    SessionState(s) = "Closed" =>
        /\ pc'[s] = pc[s]
        /\ frame_count'[s] = frame_count[s]
        /\ sent'[s] = sent[s]
        /\ logged'[s] = logged[s]
        /\ cycle'[s] = cycle[s]
        /\ detector_calls'[s] = detector_calls[s]
        /\ detections'[s] = detections[s]
        /\ ws_tracks'[s] = ws_tracks[s]
        /\ \A r \in issued' : r.by = s => r.id \in IssuedIds

\* the moves of session s other than the one out of Connected
LifecycleMoves(s) ==
    /\ SessionState(s) = "Pending" => SessionState(s)' \in {"Pending", "Connected"}
    /\ SessionState(s) = "Streaming" => SessionState(s)' \in {"Streaming", "Closed"}
    /\ (SessionState(s) # "Closed" /\ SessionState(s)' = "Closed") =>
          /\ pc[s] \in {"receive", "send"}
          /\ pc'[s] \in {"disconnected", "failed"}
          /\ pc'[s] = "disconnected" =>
                (frame_count'[s] = frame_count[s] /\ cycle'[s] = cycle[s])
    /\ ClosedIsTerminal(s)

\* C20 as stated: a session only moves Connected -> Streaming -> Closed,
\* so it leaves Connected only for Streaming (it reaches Closed out of
\* Connected only in a step that received its first frame); Closed is
\* terminal and is entered on a disconnect or on an exception.
C20_OnlyThroughStreaming ==
    [][\A s \in Sessions :
        /\ LifecycleMoves(s)
        /\ SessionState(s) = "Connected" =>
              \/ SessionState(s)' \in {"Connected", "Streaming"}
              \/ SessionState(s)' = "Closed" /\ frame_count'[s] > frame_count[s]
      ]_vars

\* C20, amended: a session moves Connected -> Streaming -> Closed, or
\* Connected -> Closed when the connection ends before its first frame;
\* Closed is terminal, entered on a client disconnect (without error) or
\* on any other exception, and a Closed session never receives, processes
\* or sends another frame and never returns to Streaming.
C20_Lifecycle ==
    [][\A s \in Sessions :
        /\ LifecycleMoves(s)
        /\ SessionState(s) = "Connected" =>
              SessionState(s)' \in {"Connected", "Streaming", "Closed"}
      ]_vars

\* one session closed after it had sent a frame, another closed by a
\* disconnect before its first frame
C20_Witness ==
    \E s, t \in Sessions :
        /\ SessionState(s) = "Closed" /\ sent[s] >= 1
        /\ pc[t] = "disconnected" /\ cycle[t].kind = "none" /\ frame_count[t] = 0

\* C21: the loop of a session is sequential: a frame is counted only from
\* the receive point and leads to the send point, a frame is sent only
\* from the send point, it is the frame last counted, and the session is
\* back at the receive point afterwards (one frame in flight at most); and
\* while a session is between its tracker call and the end of its cycle,
\* no step changes the track set.
C21_SequentialLoop ==
    [][\A s \in Sessions :
        /\ frame_count'[s] # frame_count[s] =>
              /\ pc[s] = "receive"
              /\ frame_count'[s] = frame_count[s] + 1
              /\ pc'[s] \in {"send", "failed"}
        /\ sent'[s] # sent[s] =>
              /\ pc[s] = "send"
              /\ sent'[s] = sent[s] + 1
              /\ cycle[s].frame = frame_count[s]
              /\ pc'[s] = "receive"
        /\ pc[s] = "send" => tracks' = tracks
      ]_vars

\* C22 as stated: the log record of a processed frame is written once,
\* when its cycle ends, if detections or tracks is non-empty, and not
\* written if both are empty; nothing else writes a record.
C22_LoggedOncePerCycle ==
    [][\A s \in Sessions :
        IF pc[s] = "send" /\ pc'[s] # "send"
        THEN logged'[s] = logged[s] +
                (IF detections[s] # <<>> \/ ws_tracks[s] # <<>> THEN 1 ELSE 0)
        ELSE logged'[s] = logged[s]
      ]_vars

\* C22, amended: the log record of a processed frame is written once, if
\* detections or tracks is non-empty, when the annotated frame has been
\* sent; it is not written if both are empty or if the send failed.
C22_LoggedOncePerSentFrame ==
    [][\A s \in Sessions :
        IF sent'[s] = sent[s] + 1
        THEN logged'[s] = logged[s] +
                (IF detections[s] # <<>> \/ ws_tracks[s] # <<>> THEN 1 ELSE 0)
        ELSE logged'[s] = logged[s]
      ]_vars

\* a session has sent one frame with nothing to report and one frame with
\* tracks; another session lost its connection with a frame to send
C22_Witness ==
    \E s, t \in Sessions :
        /\ sent[s] = 2 /\ logged[s] = 1
        /\ Closed(t) /\ frame_count[t] = 1 /\ sent[t] = 0 /\ logged[t] = 0
        /\ ws_tracks[t] # <<>>

\* C23: the tracker that serves /stream evicts by the configured
\* TRACKER_BUFFER: its buffer_size is that value, and no live track is
\* older than it.
C23_ConfiguredBufferUsed ==
    /\ buffer_size = TRACKER_BUFFER
    /\ \A i \in 1..Len(tracks) : tracks[i].last_seen <= TRACKER_BUFFER

\* C24: the lists update and get_active_tracks return, and the live set
\* they are taken from, are in strictly ascending id order.
C24_AscendingIds ==
    /\ \A i, j \in 1..Len(call.ret) : i < j => call.ret[i].id < call.ret[j].id
    /\ \A i, j \in 1..Len(tracks) : i < j => tracks[i].id < tracks[j].id

\* get_active_tracks returned two tracks after an earlier one was evicted
C24_Witness ==
    /\ call.op = "get_active_tracks"
    /\ Len(call.ret) >= 2
    /\ call.ret[1].id > 0
    /\ Len(tracks) < next_id

\* C27: with at most MaxDets detections per update call, the tracker
\* holds at most MaxDets * buffer_size tracks.
C27_LiveSetBounded == Len(tracks) <= MaxDets * buffer_size

\* the bound is met: MaxDets tracks per buffered update call are live
C27_Witness ==
    /\ buffer_size >= 1
    /\ Len(tracks) = MaxDets * buffer_size
    /\ call.op = "get_active_tracks"

\* C25: a retrain_model call ends by returning a result with status
\* "aborted", "failed" or "success" and with a model path iff the status
\* is "success"; with an empty combined directory or without class names
\* it returns "aborted" and has neither loaded a base model nor trained;
\* a base model that does not load or a training that fails gives
\* "failed", not an exception.
C25_RetrainModelReturns ==
    LET r == trainer.result
        env == trainer.env
    IN  r.kind # "none" =>
          /\ r.kind = "returned"
          /\ r.status \in {"aborted", "failed", "success"}
          /\ (r.model_path # "None") <=> (r.status = "success")
          /\ (Combined(env) = {} \/ ClassNames(model) = {}) =>
                (r.status = "aborted" /\ ~r.loaded /\ ~r.trained)
          /\ (r.loaded /\ (~env.base_loads \/ ~env.train_ok)) => r.status = "failed"

\* C26: when train_student_model_script has returned, each of the seven
\* configuration fields it overrode has the value it had before the call,
\* whether retrain_model returned "success", returned a failure or raised.
C26_ConfigRestored ==
    script.pc = "returned" =>
        /\ \A f \in DOMAIN config : config[f] = script.before[f]
        /\ script.ret.kind = "returned"

\* the script has returned after a run in which all seven fields were
\* overridden with other values and retrain_model raised
C26_Witness ==
    /\ script.pc = "returned"
    /\ \A f \in DOMAIN config : script.args[f] # script.before[f]
    /\ trainer.result.kind = "raised"
    /\ script.ret.status = "failed"

====
